---- MODULE Spec2Model ----
(***************************************************************************)
(* go-search-logger: the search-query coalescing engine of                 *)
(* internal/searchlogger/search_logger.go.                                 *)
(*                                                                         *)
(* Strings are sequences of one-character strings, so that prefix tests,   *)
(* trimming and lower-casing are computed the way the Go code computes     *)
(* them.  The Redis cache is a function from the keys that are present to  *)
(* their values; the SQL table user_searches is the sequence of its rows.  *)
(* LogSearch and StartKeyspaceListener are cut at every Redis / SQL call,  *)
(* which are the only points where the request goroutines and the          *)
(* listener goroutine can observe each other.                              *)
(***************************************************************************)
EXTENDS Naturals, Sequences, FiniteSets, Bags, TLC

VARIABLES
    redis,      \* the cache: key -> value, for the keys that are present
    records,    \* rows of user_searches, in insertion order
    call,       \* per request goroutine: the position and locals of LogSearch
    lst,        \* per listener goroutine: the position and locals of the loop
    ch,         \* per listener: the channel of expired-key messages
    ncalls,     \* number of LogSearch calls made so far
    subs,       \* history: per identity, the normalized queries submitted
    ended,      \* history: per identity, the last value of every ended burst
    ndup,       \* number of expiry messages delivered a second time
    proc        \* per listener goroutine: its subscription and its context

vars == <<redis, records, call, lst, ch, ncalls, subs, ended, ndup, proc>>

----------------------------------------------------------------------------
(* Bounds of the model. *)

MaxCalls == 3
MaxDup == 1

----------------------------------------------------------------------------
(* Inputs. *)

\* Raw queries as they arrive from the ingress: mixed case, padded, blank.
RawQueries ==
    { <<" ">>,
      <<"A">>,
      <<"a", "b", " ">>,
      <<" ", "B">> }

\* One-keystroke queries: every two different ones are a reset.
ShortQueries == { <<"A">>, <<" ", "B">> }

\* Caller-supplied user identifiers: absent, authenticated.
UserIDs == { <<>>, <<"u">> }

\* An authenticated user whose identifier begins with "anon".
AnonLikeUserIDs == { <<"a", "n", "o", "n", "z">> }

\* ... and one that is not empty but holds only whitespace.
AllUserIDs == UserIDs \cup { <<" ">> }

UserAgents == { <<"X">> }

\* Two browsers.
AllUserAgents == UserAgents \cup { <<"Y">> }

----------------------------------------------------------------------------
(* String helpers (package strings). *)

IsSpace(c) == c = " "

ToLowerChar(c) ==
    CASE c = "A" -> "a"
      [] c = "B" -> "b"
      [] OTHER -> c

ToLower(s) == [i \in 1..Len(s) |-> ToLowerChar(s[i])]

RECURSIVE TrimLeft(_)
TrimLeft(s) ==
    IF s # <<>> /\ IsSpace(Head(s)) THEN TrimLeft(Tail(s)) ELSE s

RECURSIVE TrimRight(_)
TrimRight(s) ==
    IF s # <<>> /\ IsSpace(s[Len(s)])
    THEN TrimRight(SubSeq(s, 1, Len(s) - 1))
    ELSE s

TrimSpace(s) == TrimRight(TrimLeft(s))

HasPrefix(s, p) == Len(p) <= Len(s) /\ SubSeq(s, 1, Len(p)) = p

TrimPrefix(s, p) ==
    IF HasPrefix(s, p) THEN SubSeq(s, Len(p) + 1, Len(s)) ELSE s

----------------------------------------------------------------------------
(* Pure functions of search_logger.go. *)

\* Line 30 without TrimSpace.
normalizeQueryNoTrim(query) == ToLower(query)

normalizeQuery(query) == ToLower(TrimSpace(query))

LastPrefix == <<"s","e","a","r","c","h",":","l","a","s","t",":">>

BufferPrefix == <<"s","e","a","r","c","h",":","b","u","f","f","e","r",":">>

AnonMarker == <<"a","n","o","n">>

\* Line 35 without the user id: one head key for everybody.
buildRedisKeyShared(userID) == LastPrefix

buildRedisKey(userID) == LastPrefix \o userID

buildBufferKey(userID) == BufferPrefix \o userID

\* hex(SHA-256(userAgent)): an injective digest of the user agents in use.
sha256hex(userAgent) ==
    CASE userAgent = <<"X">> -> <<"7","e">>
      [] userAgent = <<"Y">> -> <<"3","c">>
      [] OTHER -> <<"0","0">> \o userAgent

\* Line 131 without the digest: one anonymous identity for every browser.
generateAnonIDFixed(userAgent) == AnonMarker \o <<"7", "e">>

generateAnonID(userAgent) == AnonMarker \o sha256hex(userAgent)

\* LogSearch, lines 51-62: the anonymous id and the id used in the keys.
anonIDOf(userID, userAgent) ==
    IF TrimSpace(userID) = <<>> THEN generateAnonID(userAgent) ELSE <<>>

idForRedisOf(userID, userAgent) ==
    IF TrimSpace(userID) = <<>> THEN generateAnonID(userAgent) ELSE userID

\* LogSearch, line 46.
IsEmptyQuery(normalizedQuery) == normalizedQuery = <<>>

\* Lines 69-70 with the negation of the second prefix test lost.
IsResetLostNegation(lastQuery, normalizedQuery) ==
    /\ lastQuery # <<>>
    /\ ~HasPrefix(normalizedQuery, lastQuery)
    /\ HasPrefix(lastQuery, normalizedQuery)

\* Lines 69-70 with only the forward prefix test: backspacing is a reset.
IsResetForwardOnly(lastQuery, normalizedQuery) ==
    /\ lastQuery # <<>>
    /\ ~HasPrefix(normalizedQuery, lastQuery)

\* Lines 69-70 with strict prefix tests: typing the same query again is a reset.
IsResetOnEqual(lastQuery, normalizedQuery) ==
    /\ lastQuery # <<>>
    /\ \/ lastQuery = normalizedQuery
       \/ /\ ~HasPrefix(normalizedQuery, lastQuery)
          /\ ~HasPrefix(lastQuery, normalizedQuery)

\* LogSearch, lines 69-70.
IsReset(lastQuery, normalizedQuery) ==
    /\ lastQuery # <<>>
    /\ ~HasPrefix(normalizedQuery, lastQuery)
    /\ ~HasPrefix(lastQuery, normalizedQuery)

\* LogSearch, lines 73-77.
ResetEntry(userID, lastQuery, anonID) ==
    [UserID |-> userID, Query |-> lastQuery, AnonID |-> anonID]

\* StartKeyspaceListener, lines 162-172.
ExpiryEntry(userID, query) ==
    IF HasPrefix(userID, AnonMarker)
    THEN [UserID |-> <<>>, Query |-> query, AnonID |-> userID]
    ELSE [UserID |-> userID, Query |-> query, AnonID |-> <<>>]

----------------------------------------------------------------------------
(* The cache (go-redis client). *)

Has(store, key) == key \in DOMAIN store

\* Get(...).Result(): the value, and "" with redis.Nil when the key is absent.
GetVal(store, key) == IF Has(store, key) THEN store[key] ELSE <<>>

Set(store, key, value) ==
    [k \in DOMAIN store \cup {key} |-> IF k = key THEN value ELSE store[k]]

Del(store, key) == [k \in DOMAIN store \ {key} |-> store[k]]

----------------------------------------------------------------------------
(* The store (database/sql). *)

\* insertQuery: the row of user_searches; via names the path that wrote it.
Row(entry, via) ==
    [user_id |-> entry.UserID, search_text |-> entry.Query,
     anon_id |-> entry.AnonID, via |-> via]

\* The steps of a transaction that can fail, and "none".
StoreOutcomes == {"none", "begin", "exec", "commit"}

\* A SearchEntry with an empty Query and one with a query, as in-package
\* callers of writeSearch build them.
DirectEntries ==
    { [UserID |-> <<"t">>, Query |-> <<>>, AnonID |-> <<>>],
      [UserID |-> <<"t">>, Query |-> <<"q">>, AnonID |-> <<>>] }

\* Lines 96-99 left out: an empty query is inserted like any other.
writeSearchNoEmptyCheck(rows, entry, via, fail) ==
    IF fail # "none"
    THEN [rows |-> rows, err |-> TRUE]
    ELSE [rows |-> Append(rows, Row(entry, via)), err |-> FALSE]

\* Lines 101-104, 115-119, 121-124 without the returns: a failed transaction
\* is reported as a success.
writeSearchSwallowsError(rows, entry, via, fail) ==
    IF entry.Query = <<>> \/ fail # "none"
    THEN [rows |-> rows, err |-> FALSE]
    ELSE [rows |-> Append(rows, Row(entry, via)), err |-> FALSE]

\* Lines 121-124 with a Commit that fails after the row became visible.
writeSearchPartial(rows, entry, via, fail) ==
    IF entry.Query = <<>>
    THEN [rows |-> rows, err |-> FALSE]
    ELSE IF fail \in {"begin", "exec"}
         THEN [rows |-> rows, err |-> TRUE]
         ELSE [rows |-> Append(rows, Row(entry, via)), err |-> fail # "none"]

\* Lines 113-114 with an insert that replaces the latest row of the same
\* user_id and anon_id when there is one.
writeSearchUpsert(rows, entry, via, fail) ==
    IF entry.Query = <<>>
    THEN [rows |-> rows, err |-> FALSE]
    ELSE IF fail # "none"
         THEN [rows |-> rows, err |-> TRUE]
         ELSE LET same == { i \in DOMAIN rows :
                              /\ rows[i].user_id = entry.UserID
                              /\ rows[i].anon_id = Row(entry, via).anon_id }
              IN  IF same = {}
                  THEN [rows |-> Append(rows, Row(entry, via)), err |-> FALSE]
                  ELSE [rows |-> [rows EXCEPT
                                    ![CHOOSE i \in same : \A j \in same : j <= i] =
                                        Row(entry, via)],
                        err |-> FALSE]

\* writeSearch: fail is "none", or the step that fails: "begin", "exec",
\* "commit".  A failed transaction leaves no row.
writeSearch(rows, entry, via, fail) ==
    IF entry.Query = <<>>
    THEN [rows |-> rows, err |-> FALSE]
    ELSE IF fail # "none"
         THEN [rows |-> rows, err |-> TRUE]
         ELSE [rows |-> Append(rows, Row(entry, via)), err |-> FALSE]

----------------------------------------------------------------------------
(* Identities. *)

IdKeys ==
    { idForRedisOf(u, a) : u \in AllUserIDs \cup AnonLikeUserIDs, a \in AllUserAgents }

Callers == DOMAIN call

Listeners == DOMAIN lst

IdleCall ==
    [pc |-> "idle", userID |-> <<>>, userAgent |-> <<>>, anonID |-> <<>>,
     idForRedis |-> <<>>,
     query |-> <<>>, normalizedQuery |-> <<>>, lastQuery |-> <<>>, err1 |-> FALSE,
     row |-> <<>>, ret |-> "nil"]

IdleListener == [pc |-> "select", userID |-> <<>>, query |-> <<>>]

Returned(c) == call[c].pc = "idle"

\* A call of LogSearch for identity id is between its first and last step.
InCall(id) ==
    \E c \in Callers : ~Returned(c) /\ call[c].idForRedis = id

----------------------------------------------------------------------------
(* LogSearch, one action per cache or store call. *)

\* Lines 44-70 behind a lock per identity: a call waits while another call
\* for its identity is running.
LogSearchBeginSerialized(c, userID, userAgent, query, getOk) ==
    /\ Returned(c)
    /\ ~InCall(idForRedisOf(userID, userAgent))
    /\ ncalls < MaxCalls
    /\ ncalls' = ncalls + 1
    /\ LET normalizedQuery == normalizeQuery(query)
           anonID == anonIDOf(userID, userAgent)
           idForRedis == idForRedisOf(userID, userAgent)
           redisKey == buildRedisKey(idForRedis)
           lastQuery == IF getOk THEN GetVal(redis, redisKey) ELSE <<>>
       IN  IF IsEmptyQuery(normalizedQuery)
           THEN /\ call' = [call EXCEPT ![c] = IdleCall]
                /\ subs' = subs
           ELSE /\ call' = [call EXCEPT ![c] =
                               [pc |-> IF IsReset(lastQuery, normalizedQuery)
                                       THEN "write" ELSE "sethead",
                                userID |-> userID, userAgent |-> userAgent,
                                anonID |-> anonID,
                                idForRedis |-> idForRedis, query |-> query,
                                normalizedQuery |-> normalizedQuery,
                                lastQuery |-> lastQuery, err1 |-> FALSE,
                                row |-> <<>>, ret |-> "nil"]]
                /\ subs' = [subs EXCEPT ![idForRedis] =
                               Append(@, normalizedQuery)]
    /\ UNCHANGED <<redis, records, lst, ch, ended, ndup, proc>>

\* Lines 44-70 with a second read: when the head key is absent the buffer key
\* is read in its place.
LogSearchBeginReadsBuffer(c, userID, userAgent, query, getOk) ==
    /\ Returned(c)
    /\ ncalls < MaxCalls
    /\ ncalls' = ncalls + 1
    /\ LET normalizedQuery == normalizeQuery(query)
           anonID == anonIDOf(userID, userAgent)
           idForRedis == idForRedisOf(userID, userAgent)
           redisKey == buildRedisKey(idForRedis)
           lastQuery == IF ~getOk THEN <<>>
                        ELSE IF Has(redis, redisKey) THEN redis[redisKey]
                        ELSE GetVal(redis, buildBufferKey(idForRedis))
       IN  IF IsEmptyQuery(normalizedQuery)
           THEN /\ call' = [call EXCEPT ![c] = IdleCall]
                /\ subs' = subs
           ELSE /\ call' = [call EXCEPT ![c] =
                               [pc |-> IF IsReset(lastQuery, normalizedQuery)
                                       THEN "write" ELSE "sethead",
                                userID |-> userID, userAgent |-> userAgent,
                                anonID |-> anonID,
                                idForRedis |-> idForRedis, query |-> query,
                                normalizedQuery |-> normalizedQuery,
                                lastQuery |-> lastQuery, err1 |-> FALSE,
                                row |-> <<>>, ret |-> "nil"]]
                /\ subs' = [subs EXCEPT ![idForRedis] =
                               Append(@, normalizedQuery)]
    /\ UNCHANGED <<redis, records, lst, ch, ended, ndup, proc>>

\* Lines 44-70: normalize, ignore an empty query, resolve the identity, read
\* the head key (its error is dropped: lastQuery is "" then) and decide.
LogSearchBegin(c, userID, userAgent, query, getOk) ==
    /\ Returned(c)
    /\ ncalls < MaxCalls
    /\ ncalls' = ncalls + 1
    /\ LET normalizedQuery == normalizeQuery(query)
           anonID == anonIDOf(userID, userAgent)
           idForRedis == idForRedisOf(userID, userAgent)
           redisKey == buildRedisKey(idForRedis)
           lastQuery == IF getOk THEN GetVal(redis, redisKey) ELSE <<>>
       IN  IF IsEmptyQuery(normalizedQuery)
           THEN /\ call' = [call EXCEPT ![c] = IdleCall]
                /\ subs' = subs
           ELSE /\ call' = [call EXCEPT ![c] =
                               [pc |-> IF IsReset(lastQuery, normalizedQuery)
                                       THEN "write" ELSE "sethead",
                                userID |-> userID, userAgent |-> userAgent,
                                anonID |-> anonID,
                                idForRedis |-> idForRedis, query |-> query,
                                normalizedQuery |-> normalizedQuery,
                                lastQuery |-> lastQuery, err1 |-> FALSE,
                                row |-> <<>>, ret |-> "nil"]]
                /\ subs' = [subs EXCEPT ![idForRedis] =
                               Append(@, normalizedQuery)]
    /\ UNCHANGED <<redis, records, lst, ch, ended, ndup, proc>>

\* Lines 72-82 with a loop around writeSearch: a failed flush is tried again.
LogSearchWriteRetries(c, fail) ==
    /\ call[c].pc = "write"
    /\ LET id == call[c].idForRedis
           redisKey == buildRedisKey(id)
           entry == ResetEntry(call[c].userID, call[c].lastQuery, call[c].anonID)
           res == writeSearch(records, entry, "reset", fail)
       IN  /\ records' = res.rows
           /\ IF res.err
              THEN /\ call' = [call EXCEPT ![c].err1 = TRUE]
                   /\ ended' = ended
              ELSE /\ call' = [call EXCEPT ![c].pc = "sethead",
                                           ![c].err1 = FALSE,
                                           ![c].row = SubSeq(res.rows,
                                                        Len(records) + 1,
                                                        Len(res.rows))]
                   /\ ended' = IF Has(redis, redisKey)
                               THEN [ended EXCEPT ![id] = Append(@,
                                        [text |-> redis[redisKey], by |-> "reset"])]
                               ELSE ended
    /\ UNCHANGED <<redis, lst, ch, ncalls, subs, ndup, proc>>

\* Lines 72-82: the reset flush of the previous head value.
LogSearchWrite(c, fail) ==
    /\ call[c].pc = "write"
    /\ LET id == call[c].idForRedis
           redisKey == buildRedisKey(id)
           entry == ResetEntry(call[c].userID, call[c].lastQuery, call[c].anonID)
           res == writeSearch(records, entry, "reset", fail)
       IN  /\ records' = res.rows
           /\ IF res.err
              THEN /\ call' = [call EXCEPT ![c] = [IdleCall EXCEPT !.ret = "err"]]
                   /\ ended' = ended
              ELSE /\ call' = [call EXCEPT ![c].pc = "sethead",
                                           ![c].row = SubSeq(res.rows,
                                                        Len(records) + 1,
                                                        Len(res.rows))]
                   /\ ended' = IF Has(redis, redisKey)
                               THEN [ended EXCEPT ![id] = Append(@,
                                        [text |-> redis[redisKey], by |-> "reset"])]
                               ELSE ended
    /\ UNCHANGED <<redis, lst, ch, ncalls, subs, ndup, proc>>

\* Line 84 followed by a return on its error: the buffer write is skipped.
LogSearchSetHeadReturnsOnError(c, ok) ==
    /\ call[c].pc = "sethead"
    /\ redis' = IF ok
                THEN Set(redis, buildRedisKey(call[c].idForRedis),
                         call[c].normalizedQuery)
                ELSE redis
    /\ call' = [call EXCEPT ![c] =
                    IF ok THEN [@ EXCEPT !.pc = "setbuffer"]
                    ELSE [IdleCall EXCEPT !.ret = "err"]]
    /\ UNCHANGED <<records, lst, ch, ncalls, subs, ended, ndup, proc>>

\* Line 84: Set(redisKey, normalizedQuery, 10s).
LogSearchSetHead(c, ok) ==
    /\ call[c].pc = "sethead"
    /\ redis' = IF ok
                THEN Set(redis, buildRedisKey(call[c].idForRedis),
                         call[c].normalizedQuery)
                ELSE redis
    /\ call' = [call EXCEPT ![c].pc = "setbuffer", ![c].err1 = ~ok]
    /\ UNCHANGED <<records, lst, ch, ncalls, subs, ended, ndup, proc>>

\* Lines 85-91: Set(bufferKey, normalizedQuery, 1h) and the return value.
LogSearchSetBuffer(c, ok) ==
    /\ call[c].pc = "setbuffer"
    /\ redis' = IF ok
                THEN Set(redis, buildBufferKey(call[c].idForRedis),
                         call[c].normalizedQuery)
                ELSE redis
    /\ call' = [call EXCEPT ![c] =
                    [IdleCall EXCEPT !.ret = IF call[c].err1 \/ ~ok
                                             THEN "err" ELSE "nil"]]
    /\ UNCHANGED <<records, lst, ch, ncalls, subs, ended, ndup, proc>>

----------------------------------------------------------------------------
(* writeSearch called directly by code of the package. *)

\* The caller builds a SearchEntry and calls writeSearch.
WriteSearchEnter(c, entry) ==
    /\ Returned(c)
    /\ ncalls < MaxCalls
    /\ ncalls' = ncalls + 1
    /\ call' = [call EXCEPT ![c] =
                    [IdleCall EXCEPT !.pc = "writesearch",
                                     !.userID = entry.UserID,
                                     !.anonID = entry.AnonID,
                                     !.lastQuery = entry.Query]]
    /\ UNCHANGED <<redis, records, lst, ch, subs, ended, ndup, proc>>

\* Lines 95-127; the caller keeps its entry and the error it got.
WriteSearchRun(c, fail) ==
    /\ call[c].pc = "writesearch"
    /\ LET entry == ResetEntry(call[c].userID, call[c].lastQuery, call[c].anonID)
           res == writeSearch(records, entry, "direct", fail)
       IN  /\ records' = res.rows
           /\ call' = [call EXCEPT ![c].pc = "idle",
                                   ![c].ret = IF res.err THEN "err" ELSE "nil"]
    /\ UNCHANGED <<redis, lst, ch, ncalls, subs, ended, ndup, proc>>

----------------------------------------------------------------------------
(* The cache's expiry of a head key and its notification. *)

\* PSubscribe of line 136 succeeded and pubsub.Close() has not run.
Subscribed(l) == proc[l].subscribed

\* A reset flush has already ended the burst of id; its head is not yet replaced.
ResetFlushed(id) ==
    \E c \in Callers :
        /\ call[c].pc = "sethead"
        /\ call[c].idForRedis = id
        /\ call[c].row # <<>>

\* The 10s TTL of line 84 elapses: the key is removed and its name is
\* published on __keyevent@0__:expired to every subscribed listener.
ExpireHead(key) ==
    /\ Has(redis, key)
    /\ HasPrefix(key, LastPrefix)
    /\ redis' = Del(redis, key)
    /\ ch' = [l \in Listeners |->
                 IF Subscribed(l) THEN Append(ch[l], key) ELSE ch[l]]
    /\ LET id == TrimPrefix(key, LastPrefix)
       IN  ended' = IF ResetFlushed(id)
                    THEN ended
                    ELSE [ended EXCEPT ![id] = Append(@,
                             [text |-> redis[key], by |-> "expiry"])]
    /\ UNCHANGED <<records, call, lst, ncalls, subs, ndup, proc>>

\* The 1h TTL of line 85 elapses, long after the head key of the identity is
\* gone: the buffer key is removed and its name is published on the same
\* __keyevent@0__:expired channel.
ExpireBuffer(key) ==
    /\ Has(redis, key)
    /\ HasPrefix(key, BufferPrefix)
    /\ ~Has(redis, buildRedisKey(TrimPrefix(key, BufferPrefix)))
    /\ redis' = Del(redis, key)
    /\ ch' = [l \in Listeners |->
                 IF Subscribed(l) THEN Append(ch[l], key) ELSE ch[l]]
    /\ UNCHANGED <<records, call, lst, ncalls, subs, ended, ndup, proc>>

HeadExpired(id) ==
    \E i \in 1..Len(ended[id]) : ended[id][i].by = "expiry"

\* An expiry message of a head key that did expire arrives a second time.
Redeliver(l, id) ==
    /\ ndup < MaxDup
    /\ Subscribed(l)
    /\ HeadExpired(id)
    /\ ~Has(redis, buildRedisKey(id))
    /\ ndup' = ndup + 1
    /\ ch' = [ch EXCEPT ![l] = Append(@, buildRedisKey(id))]
    /\ UNCHANGED <<redis, records, call, lst, ncalls, subs, ended, proc>>

----------------------------------------------------------------------------
(* StartKeyspaceListener, one action per cache or store call. *)

\* Lines 147-160 without the continue of line 159: after a failed or empty
\* read the listener goes on with the empty query.
ListenerRecvIgnoresReadError(l, getOk) ==
    /\ lst[l].pc = "select"
    /\ ch[l] # <<>>
    /\ ch' = [ch EXCEPT ![l] = Tail(@)]
    /\ LET expiredKey == Head(ch[l])
           userID == TrimPrefix(expiredKey, LastPrefix)
           bufferKey == buildBufferKey(userID)
       IN  IF HasPrefix(expiredKey, LastPrefix)
           THEN lst' = [lst EXCEPT ![l] =
                           [pc |-> "write", userID |-> userID,
                            query |-> IF getOk THEN GetVal(redis, bufferKey)
                                      ELSE <<>>]]
           ELSE lst' = lst
    /\ UNCHANGED <<redis, records, call, ncalls, subs, ended, ndup, proc>>

\* Lines 147-160 with the filter of line 149 on "search:": a message of
\* either namespace makes the listener read the buffer of its identity.
ListenerRecvAnyNamespace(l, getOk) ==
    /\ lst[l].pc = "select"
    /\ ch[l] # <<>>
    /\ ch' = [ch EXCEPT ![l] = Tail(@)]
    /\ LET expiredKey == Head(ch[l])
           userID == TrimPrefix(TrimPrefix(expiredKey, LastPrefix), BufferPrefix)
           bufferKey == buildBufferKey(userID)
       IN  IF getOk /\ Has(redis, bufferKey)
           THEN lst' = [lst EXCEPT ![l] =
                           [pc |-> "write", userID |-> userID,
                            query |-> redis[bufferKey]]]
           ELSE lst' = lst
    /\ UNCHANGED <<redis, records, call, ncalls, subs, ended, ndup, proc>>

\* Lines 147-160: receive a message, filter the head namespace, read the buffer.
ListenerRecv(l, getOk) ==
    /\ lst[l].pc = "select"
    /\ ch[l] # <<>>
    /\ ch' = [ch EXCEPT ![l] = Tail(@)]
    /\ LET expiredKey == Head(ch[l])
           userID == TrimPrefix(expiredKey, LastPrefix)
           bufferKey == buildBufferKey(userID)
       IN  IF HasPrefix(expiredKey, LastPrefix) /\ getOk /\ Has(redis, bufferKey)
           THEN lst' = [lst EXCEPT ![l] =
                           [pc |-> "write", userID |-> userID,
                            query |-> redis[bufferKey]]]
           ELSE lst' = lst
    /\ UNCHANGED <<redis, records, call, ncalls, subs, ended, ndup, proc>>

\* Lines 162-176 without the continue of line 175: the buffer is deleted
\* whether or not the write succeeded.
ListenerWriteThenDelete(l, fail) ==
    /\ lst[l].pc = "write"
    /\ LET entry == ExpiryEntry(lst[l].userID, lst[l].query)
           res == writeSearch(records, entry, "expiry", fail)
       IN  /\ records' = res.rows
           /\ lst' = [lst EXCEPT ![l].pc = "del"]
    /\ UNCHANGED <<redis, call, ch, ncalls, subs, ended, ndup, proc>>

\* Lines 162-176: classify the identity and write the buffered query.
ListenerWrite(l, fail) ==
    /\ lst[l].pc = "write"
    /\ LET entry == ExpiryEntry(lst[l].userID, lst[l].query)
           res == writeSearch(records, entry, "expiry", fail)
       IN  /\ records' = res.rows
           /\ lst' = [lst EXCEPT ![l] =
                         IF res.err THEN IdleListener ELSE [@ EXCEPT !.pc = "del"]]
    /\ UNCHANGED <<redis, call, ch, ncalls, subs, ended, ndup, proc>>

\* Line 177 left out: the buffer key survives the flush.
AfterFlushKeepsBuffer(store, bufferKey) == store

\* Line 177: what the listener does to the cache after a successful write.
AfterFlush(store, bufferKey) == Del(store, bufferKey)

\* Lines 177-178: delete the buffer key (the error is dropped), loop.
ListenerDel(l, ok) ==
    /\ lst[l].pc = "del"
    /\ redis' = IF ok
                THEN AfterFlush(redis, buildBufferKey(lst[l].userID))
                ELSE redis
    /\ lst' = [lst EXCEPT ![l] = IdleListener]
    /\ UNCHANGED <<records, call, ch, ncalls, subs, ended, ndup, proc>>

----------------------------------------------------------------------------
(* StartKeyspaceListener: start, cancellation and stop. *)

\* Lines 135-140: PSubscribe, whose error is not returned by the client, then
\* the loop.  subOk tells whether the subscription was established.
ListenerStart(l, subOk) ==
    /\ lst[l].pc = "start"
    /\ lst' = [lst EXCEPT ![l] = IdleListener]
    /\ proc' = [proc EXCEPT ![l].subscribed = subOk]
    /\ UNCHANGED <<redis, records, call, ch, ncalls, subs, ended, ndup>>

\* The owner of ctx cancels it.
Cancel(l) ==
    /\ ~proc[l].ctxDone
    /\ proc' = [proc EXCEPT ![l].ctxDone = TRUE]
    /\ UNCHANGED <<redis, records, call, lst, ch, ncalls, subs, ended, ndup>>

\* Lines 144-146 without the deferred pubsub.Close() of line 137.
ListenerStopKeepsSubscription(l) ==
    /\ lst[l].pc = "select"
    /\ proc[l].ctxDone
    /\ lst' = [lst EXCEPT ![l] = [IdleListener EXCEPT !.pc = "stopped"]]
    /\ UNCHANGED <<redis, records, call, ch, ncalls, subs, ended, ndup, proc>>

\* Lines 144-146 and the deferred pubsub.Close() of line 137: the select
\* takes the ctx.Done() case, the subscription and its channel are closed.
ListenerStop(l) ==
    /\ lst[l].pc = "select"
    /\ proc[l].ctxDone
    /\ lst' = [lst EXCEPT ![l] = [IdleListener EXCEPT !.pc = "stopped"]]
    /\ proc' = [proc EXCEPT ![l].subscribed = FALSE]
    /\ ch' = [ch EXCEPT ![l] = <<>>]
    /\ UNCHANGED <<redis, records, call, ncalls, subs, ended, ndup>>

\* What a cache command run with the listener's ctx can return: after the
\* cancellation it may fail with the context's error.
CtxCacheOutcomes(l) == IF proc[l].ctxDone THEN BOOLEAN ELSE {TRUE}

\* What a transaction run with the listener's ctx can return: after the
\* cancellation BeginTx, ExecContext or Commit fails.
CtxStoreOutcomes(l) ==
    IF proc[l].ctxDone THEN StoreOutcomes \ {"none"} ELSE {"none"}

----------------------------------------------------------------------------
(* Specifications. *)

InitWith(callers, listeners) ==
    /\ redis = <<>>
    /\ records = <<>>
    /\ call = [c \in callers |-> IdleCall]
    /\ lst = [l \in listeners |-> IdleListener]
    /\ ch = [l \in listeners |-> <<>>]
    /\ ncalls = 0
    /\ subs = [id \in IdKeys |-> <<>>]
    /\ ended = [id \in IdKeys |-> <<>>]
    /\ ndup = 0
    /\ proc = [l \in listeners |-> [subscribed |-> TRUE, ctxDone |-> FALSE]]

\* No identity other than id has submitted a query in this run.
OnlyIdentity(id) == \A other \in IdKeys \ {id} : subs[other] = <<>>

\* One server (one request at a time, one listener already in its loop), cache
\* and store available, and one identity in use: the anonymous or the authenticated one.
Init == InitWith({1}, {1})

Next ==
    \/ \E c \in Callers, u \in UserIDs, a \in UserAgents, q \in RawQueries :
           /\ OnlyIdentity(idForRedisOf(u, a))
           /\ LogSearchBegin(c, u, a, q, TRUE)
    \/ \E c \in Callers : LogSearchWrite(c, "none")
    \/ \E c \in Callers : LogSearchSetHead(c, TRUE)
    \/ \E c \in Callers : LogSearchSetBuffer(c, TRUE)
    \/ \E key \in DOMAIN redis : ExpireHead(key)
    \/ \E l \in Listeners : ListenerRecv(l, TRUE)
    \/ \E l \in Listeners : ListenerWrite(l, "none")
    \/ \E l \in Listeners : ListenerDel(l, TRUE)

Spec == Init /\ [][Next]_vars

\* The same server with two identities in use, each typing one-keystroke
\* queries.
NextTwo ==
    \/ \E c \in Callers, u \in UserIDs, a \in UserAgents, q \in ShortQueries :
           LogSearchBegin(c, u, a, q, TRUE)
    \/ \E c \in Callers : LogSearchWrite(c, "none")
    \/ \E c \in Callers : LogSearchSetHead(c, TRUE)
    \/ \E c \in Callers : LogSearchSetBuffer(c, TRUE)
    \/ \E key \in DOMAIN redis : ExpireHead(key)
    \/ \E l \in Listeners : ListenerRecv(l, TRUE)
    \/ \E l \in Listeners : ListenerWrite(l, "none")
    \/ \E l \in Listeners : ListenerDel(l, TRUE)

SpecTwo == Init /\ [][NextTwo]_vars

\* The one-identity server with short calls: the 10s TTL of a head key never
\* runs out while a LogSearch call for its identity is running.
NextPaced ==
    \/ \E c \in Callers, u \in UserIDs, a \in UserAgents, q \in RawQueries :
           /\ OnlyIdentity(idForRedisOf(u, a))
           /\ LogSearchBegin(c, u, a, q, TRUE)
    \/ \E c \in Callers : LogSearchWrite(c, "none")
    \/ \E c \in Callers : LogSearchSetHead(c, TRUE)
    \/ \E c \in Callers : LogSearchSetBuffer(c, TRUE)
    \/ \E key \in DOMAIN redis :
           /\ ~InCall(TrimPrefix(key, LastPrefix))
           /\ ExpireHead(key)
    \/ \E l \in Listeners : ListenerRecv(l, TRUE)
    \/ \E l \in Listeners : ListenerWrite(l, "none")
    \/ \E l \in Listeners : ListenerDel(l, TRUE)

SpecPaced == Init /\ [][NextPaced]_vars

\* The same server with every kind of caller-supplied user id.
NextUsers ==
    \/ \E c \in Callers, u \in AllUserIDs, a \in UserAgents, q \in RawQueries :
           /\ OnlyIdentity(idForRedisOf(u, a))
           /\ LogSearchBegin(c, u, a, q, TRUE)
    \/ \E c \in Callers : LogSearchWrite(c, "none")
    \/ \E c \in Callers : LogSearchSetHead(c, TRUE)
    \/ \E c \in Callers : LogSearchSetBuffer(c, TRUE)
    \/ \E key \in DOMAIN redis :
           /\ ~InCall(TrimPrefix(key, LastPrefix))
           /\ ExpireHead(key)
    \/ \E l \in Listeners : ListenerRecv(l, TRUE)
    \/ \E l \in Listeners : ListenerWrite(l, "none")
    \/ \E l \in Listeners : ListenerDel(l, TRUE)

SpecUsers == Init /\ [][NextUsers]_vars

\* The same server with authenticated callers only, one of them with an
\* identifier that begins with "anon".
NextAnonLike ==
    \/ \E c \in Callers, u \in {<<"u">>} \cup AnonLikeUserIDs,
          a \in UserAgents, q \in RawQueries :
           /\ OnlyIdentity(idForRedisOf(u, a))
           /\ LogSearchBegin(c, u, a, q, TRUE)
    \/ \E c \in Callers : LogSearchWrite(c, "none")
    \/ \E c \in Callers : LogSearchSetHead(c, TRUE)
    \/ \E c \in Callers : LogSearchSetBuffer(c, TRUE)
    \/ \E key \in DOMAIN redis :
           /\ ~InCall(TrimPrefix(key, LastPrefix))
           /\ ExpireHead(key)
    \/ \E l \in Listeners : ListenerRecv(l, TRUE)
    \/ \E l \in Listeners : ListenerWrite(l, "none")
    \/ \E l \in Listeners : ListenerDel(l, TRUE)

SpecAnonLike == Init /\ [][NextAnonLike]_vars

\* Anonymous callers from two browsers, with two requests in flight at a time.
InitAgents == InitWith({1, 2}, {1})

NextAgents ==
    \/ \E c \in Callers, u \in {<<>>, <<" ">>}, a \in AllUserAgents,
          q \in ShortQueries :
           LogSearchBegin(c, u, a, q, TRUE)
    \/ \E c \in Callers : LogSearchWrite(c, "none")
    \/ \E c \in Callers : LogSearchSetHead(c, TRUE)
    \/ \E c \in Callers : LogSearchSetBuffer(c, TRUE)
    \/ \E key \in DOMAIN redis :
           /\ ~InCall(TrimPrefix(key, LastPrefix))
           /\ ExpireHead(key)
    \/ \E l \in Listeners : ListenerRecv(l, TRUE)
    \/ \E l \in Listeners : ListenerWrite(l, "none")
    \/ \E l \in Listeners : ListenerDel(l, TRUE)

SpecAgents == InitAgents /\ [][NextAgents]_vars

\* The one-identity server with a store whose transactions may fail at any
\* step, and with direct calls of writeSearch.
NextStore ==
    \/ \E c \in Callers, u \in UserIDs, a \in UserAgents, q \in RawQueries :
           /\ OnlyIdentity(idForRedisOf(u, a))
           /\ LogSearchBegin(c, u, a, q, TRUE)
    \/ \E c \in Callers, fail \in StoreOutcomes : LogSearchWrite(c, fail)
    \/ \E c \in Callers : LogSearchSetHead(c, TRUE)
    \/ \E c \in Callers : LogSearchSetBuffer(c, TRUE)
    \/ \E c \in Callers, entry \in DirectEntries : WriteSearchEnter(c, entry)
    \/ \E c \in Callers, fail \in StoreOutcomes : WriteSearchRun(c, fail)
    \/ \E key \in DOMAIN redis :
           /\ ~InCall(TrimPrefix(key, LastPrefix))
           /\ ExpireHead(key)
    \/ \E l \in Listeners : ListenerRecv(l, TRUE)
    \/ \E l \in Listeners, fail \in StoreOutcomes : ListenerWrite(l, fail)
    \/ \E l \in Listeners : ListenerDel(l, TRUE)

SpecStore == Init /\ [][NextStore]_vars

\* The one-identity server, typing one-keystroke queries, with a cache whose
\* commands may fail.
NextCache ==
    \/ \E c \in Callers, u \in UserIDs, a \in UserAgents, q \in ShortQueries,
          getOk \in BOOLEAN :
           /\ OnlyIdentity(idForRedisOf(u, a))
           /\ LogSearchBegin(c, u, a, q, getOk)
    \/ \E c \in Callers : LogSearchWrite(c, "none")
    \/ \E c \in Callers, ok \in BOOLEAN : LogSearchSetHead(c, ok)
    \/ \E c \in Callers, ok \in BOOLEAN : LogSearchSetBuffer(c, ok)
    \/ \E key \in DOMAIN redis :
           /\ ~InCall(TrimPrefix(key, LastPrefix))
           /\ ExpireHead(key)
    \/ \E l \in Listeners, getOk \in BOOLEAN : ListenerRecv(l, getOk)
    \/ \E l \in Listeners : ListenerWrite(l, "none")
    \/ \E l \in Listeners, ok \in BOOLEAN : ListenerDel(l, ok)

SpecCache == Init /\ [][NextCache]_vars

\* The life of a listener: it is started (its subscription may fail), serves
\* one anonymous identity, its context is cancelled at some time, and it
\* stops.  The listener goroutine is scheduled fairly and its select takes the
\* ctx.Done() case when it is ready again and again.
LifecycleListeners == {1}

InitLifecycle ==
    /\ redis = <<>>
    /\ records = <<>>
    /\ call = [c \in {1} |-> IdleCall]
    /\ lst = [l \in LifecycleListeners |-> [IdleListener EXCEPT !.pc = "start"]]
    /\ ch = [l \in LifecycleListeners |-> <<>>]
    /\ ncalls = 0
    /\ subs = [id \in IdKeys |-> <<>>]
    /\ ended = [id \in IdKeys |-> <<>>]
    /\ ndup = 0
    /\ proc = [l \in LifecycleListeners |->
                  [subscribed |-> FALSE, ctxDone |-> FALSE]]

NextLifecycle ==
    \/ \E l \in Listeners, subOk \in BOOLEAN : ListenerStart(l, subOk)
    \/ \E l \in Listeners : Cancel(l)
    \/ \E l \in Listeners : ListenerStop(l)
    \/ \E c \in Callers, a \in UserAgents, q \in ShortQueries :
           LogSearchBegin(c, <<>>, a, q, TRUE)
    \/ \E c \in Callers : LogSearchWrite(c, "none")
    \/ \E c \in Callers : LogSearchSetHead(c, TRUE)
    \/ \E c \in Callers : LogSearchSetBuffer(c, TRUE)
    \/ \E key \in DOMAIN redis :
           /\ ~InCall(TrimPrefix(key, LastPrefix))
           /\ ExpireHead(key)
    \/ \E l \in Listeners : \E getOk \in CtxCacheOutcomes(l) :
           ListenerRecv(l, getOk)
    \/ \E l \in Listeners : \E fail \in CtxStoreOutcomes(l) :
           ListenerWrite(l, fail)
    \/ \E l \in Listeners : \E ok \in CtxCacheOutcomes(l) :
           ListenerDel(l, ok)

ListenerRuns ==
    \E l \in Listeners :
        \/ \E getOk \in CtxCacheOutcomes(l) : ListenerRecv(l, getOk)
        \/ \E fail \in CtxStoreOutcomes(l) : ListenerWrite(l, fail)
        \/ \E ok \in CtxCacheOutcomes(l) : ListenerDel(l, ok)

ListenerStops == \E l \in Listeners : ListenerStop(l)

SpecLifecycle ==
    /\ InitLifecycle
    /\ [][NextLifecycle]_vars
    /\ WF_vars(ListenerRuns)
    /\ SF_vars(ListenerStops)

\* One anonymous identity with two requests in flight at a time.
NextRace ==
    \/ \E c \in Callers, a \in UserAgents, q \in RawQueries :
           LogSearchBegin(c, <<>>, a, q, TRUE)
    \/ \E c \in Callers : LogSearchWrite(c, "none")
    \/ \E c \in Callers : LogSearchSetHead(c, TRUE)
    \/ \E c \in Callers : LogSearchSetBuffer(c, TRUE)
    \/ \E key \in DOMAIN redis :
           /\ ~InCall(TrimPrefix(key, LastPrefix))
           /\ ExpireHead(key)
    \/ \E l \in Listeners : ListenerRecv(l, TRUE)
    \/ \E l \in Listeners : ListenerWrite(l, "none")
    \/ \E l \in Listeners : ListenerDel(l, TRUE)

SpecRace == InitAgents /\ [][NextRace]_vars

\* The one-identity server over a long time: buffer keys expire too.
NextExpiry ==
    \/ \E c \in Callers, u \in UserIDs, a \in UserAgents, q \in ShortQueries :
           /\ OnlyIdentity(idForRedisOf(u, a))
           /\ LogSearchBegin(c, u, a, q, TRUE)
    \/ \E c \in Callers : LogSearchWrite(c, "none")
    \/ \E c \in Callers : LogSearchSetHead(c, TRUE)
    \/ \E c \in Callers : LogSearchSetBuffer(c, TRUE)
    \/ \E key \in DOMAIN redis :
           /\ ~InCall(TrimPrefix(key, LastPrefix))
           /\ ExpireHead(key)
    \/ \E key \in DOMAIN redis :
           /\ ~InCall(TrimPrefix(key, BufferPrefix))
           /\ ExpireBuffer(key)
    \/ \E l \in Listeners : ListenerRecv(l, TRUE)
    \/ \E l \in Listeners : ListenerWrite(l, "none")
    \/ \E l \in Listeners : ListenerDel(l, TRUE)

SpecExpiry == Init /\ [][NextExpiry]_vars

\* Two server processes on one cache and one store: each runs its own
\* listener, and each listener is sent every expiry message.
InitMulti == InitWith({1}, {1, 2})

SpecMulti == InitMulti /\ [][NextPaced]_vars

\* The idle scenario: an identity stops typing, its head key expires while no
\* call for it is running, and nothing more is submitted for it (the other
\* identity goes on).  The listener's select is scheduled fairly; an expiry
\* message may arrive twice.
NextIdle ==
    \/ \E c \in Callers, u \in UserIDs, a \in UserAgents, q \in RawQueries :
           /\ ~HeadExpired(idForRedisOf(u, a))
           /\ LogSearchBegin(c, u, a, q, TRUE)
    \/ \E c \in Callers : LogSearchWrite(c, "none")
    \/ \E c \in Callers : LogSearchSetHead(c, TRUE)
    \/ \E c \in Callers : LogSearchSetBuffer(c, TRUE)
    \/ \E key \in DOMAIN redis :
           /\ ~InCall(TrimPrefix(key, LastPrefix))
           /\ ExpireHead(key)
    \/ \E l \in Listeners, id \in IdKeys : Redeliver(l, id)
    \/ \E l \in Listeners : ListenerRecv(l, TRUE)
    \/ \E l \in Listeners : ListenerWrite(l, "none")
    \/ \E l \in Listeners : ListenerDel(l, TRUE)

ListenerStep ==
    \E l \in Listeners :
        \/ ListenerRecv(l, TRUE)
        \/ ListenerWrite(l, "none")
        \/ ListenerDel(l, TRUE)

SpecIdle == Init /\ [][NextIdle]_vars /\ WF_vars(ListenerStep)

----------------------------------------------------------------------------
(* Vocabulary of the properties. *)

Range(s) == { s[i] : i \in DOMAIN s }

\* p is an initial segment of s.
IsPrefixOf(p, s) == \E n \in 0..Len(s) : p = [i \in 1..n |-> s[i]]

PrefixRelated(x, y) == IsPrefixOf(x, y) \/ IsPrefixOf(y, x)

\* A raw query that holds nothing but whitespace.
IsBlank(query) == \A i \in DOMAIN query : query[i] = " "

\* Caller c makes a step of its LogSearch call.
CallStep(c) == call'[c] # call[c] \/ ncalls' # ncalls

\* The call of c found a non-empty head unrelated to its query.
FoundReset(c) ==
    /\ call[c].lastQuery # <<>>
    /\ ~PrefixRelated(call[c].lastQuery, call[c].normalizedQuery)

\* The rows of identity id, in insertion order.
RowsOf(id) ==
    SelectSeq(records, LAMBDA r : r.user_id = id \/ r.anon_id = id)

ExpiryRowsOf(id) == SelectSeq(RowsOf(id), LAMBDA r : r.via = "expiry")

\* The query submitted for id just before the latest one.
PreviousSubmitted(id) ==
    IF Len(subs[id]) >= 2 THEN subs[id][Len(subs[id]) - 1] ELSE <<>>

----------------------------------------------------------------------------
(* C1 *)

\* C1: a LogSearch call that finds a non-empty head with no prefix relation
\* to its query writes exactly one record, whose text is the head value it
\* found, which is the query submitted just before; it then puts its own
\* query in the head and returns success.
C1_ResetFlushesPreviousHead ==
    [][\A c \in Callers :
         LET id == call[c].idForRedis
             q == call[c].normalizedQuery
         IN  /\ (call[c].pc = "sethead" /\ CallStep(c))
                    => /\ Has(redis', buildRedisKey(id))
                       /\ redis'[buildRedisKey(id)] = q
                       /\ records' = records
             /\ (call[c].pc = "setbuffer" /\ CallStep(c) /\ FoundReset(c))
                    => /\ Len(call[c].row) = 1
                       /\ call[c].row[1].search_text = PreviousSubmitted(id)
                       /\ call[c].row[1].search_text = call[c].lastQuery
                       /\ Len(SelectSeq(records,
                                LAMBDA r : r = call[c].row[1])) >= 1
                       /\ records' = records
                       /\ call'[c].ret = "nil"
                       /\ GetVal(redis', buildRedisKey(id)) \in {q, <<>>}
      ]_vars

\* A reset call has returned after a burst of two queries: the row holds the
\* two-character query and the head holds the new one.
C1_Witness ==
    \E id \in IdKeys :
        /\ Len(subs[id]) = 3
        /\ Len(subs[id][2]) = 2
        /\ ~PrefixRelated(subs[id][2], subs[id][3])
        /\ \A c \in Callers : call[c].pc = "idle"
        /\ Len(RowsOf(id)) = 1
        /\ RowsOf(id)[1].search_text = subs[id][2]
        /\ RowsOf(id)[1].via = "reset"
        /\ GetVal(redis, buildRedisKey(id)) = subs[id][3]

----------------------------------------------------------------------------
(* C2, C3: the idle scenario. *)

Last(s) == s[Len(s)]

\* Every query of the sequence extends or shortens the one before it.
IsChain(s) == \A i \in 1..(Len(s) - 1) : PrefixRelated(s[i], s[i + 1])

Settled(id) ==
    \A l \in Listeners :
        /\ lst[l].pc = "select"
        /\ \A i \in DOMAIN ch[l] : ch[l][i] # buildRedisKey(id)

\* C3: after the head of an idle identity expired, the listener eventually has
\* written exactly one record, holding the last submitted query, and deleted
\* the buffer key; at no time, also after a second delivery of the expiry
\* message, is there more than one record written on expiry.
C3_IdleExpiryFlushesOnce ==
    \A id \in IdKeys :
        /\ [](/\ Len(ExpiryRowsOf(id)) <= 1
              /\ \A i \in DOMAIN ExpiryRowsOf(id) :
                     ExpiryRowsOf(id)[i].search_text = Last(subs[id]))
        /\ HeadExpired(id) ~>
               (/\ Len(ExpiryRowsOf(id)) = 1
                /\ ExpiryRowsOf(id)[1].search_text = Last(subs[id])
                /\ ~Has(redis, buildBufferKey(id)))

\* The expiry message was delivered twice and both deliveries were handled.
C3_Witness ==
    \E id \in IdKeys :
        /\ HeadExpired(id)
        /\ ndup = 1
        /\ Settled(id)
        /\ Len(ExpiryRowsOf(id)) = 1
        /\ ExpiryRowsOf(id)[1].search_text = Last(subs[id])
        /\ ~Has(redis, buildBufferKey(id))

----------------------------------------------------------------------------
(* C4 *)

\* C4: a call whose raw query is blank never gets past the empty-query check
\* (no running call holds a blank or empty query); the step that makes such a
\* call returns nil at once and leaves every cache key and every record as
\* they were.
C4_EmptyQueryIsNoOp ==
    /\ [](\A c \in Callers :
            call[c].pc # "idle" =>
                /\ ~IsBlank(call[c].query)
                /\ call[c].normalizedQuery # <<>>)
    /\ [][\A c \in Callers :
            (ncalls' = ncalls + 1 /\ call[c].pc = "idle" /\ call'[c].pc = "idle")
                => /\ redis' = redis
                   /\ records' = records
                   /\ subs' = subs
                   /\ call'[c].ret = "nil"
         ]_vars

\* More calls were made than queries accepted, with a cache and a store that
\* were not empty: a blank query was submitted and ignored.
C4_Witness ==
    /\ \A c \in Callers : call[c].pc = "idle"
    /\ \E id \in IdKeys :
           /\ Len(subs[id]) = 2
           /\ ncalls = 3
           /\ OnlyIdentity(id)
           /\ Has(redis, buildRedisKey(id))
           /\ Has(redis, buildBufferKey(id))
           /\ records # <<>>

----------------------------------------------------------------------------
(* C5 *)

\* What the cache holds for identity id.
CacheOf(store, id) ==
    [head |-> IF Has(store, buildRedisKey(id))
              THEN <<store[buildRedisKey(id)]>> ELSE <<>>,
     buffer |-> IF Has(store, buildBufferKey(id))
                THEN <<store[buildBufferKey(id)]>> ELSE <<>>]

\* The step belongs to an operation on identity id: a step of a LogSearch
\* call for id, a listener step for id, or the expiry of the head key of id.
ActsOn(id) ==
    \/ \E c \in Callers :
           /\ CallStep(c)
           /\ id = IF call[c].pc = "idle"
                   THEN call'[c].idForRedis ELSE call[c].idForRedis
    \/ \E l \in Listeners :
           /\ lst'[l] # lst[l]
           /\ id = IF lst[l].pc = "select"
                   THEN lst'[l].userID ELSE lst[l].userID
    \/ /\ \E l \in Listeners : Len(ch'[l]) > Len(ch[l])
       /\ Has(redis, buildRedisKey(id))
       /\ ~Has(redis', buildRedisKey(id))

\* C5: a step changes the head or the buffer of an identity only when it
\* belongs to an operation on that identity, and every record attributed to
\* an identity holds a query that was submitted for that identity.
C5_IdentityIsolation ==
    /\ [][\A B \in IdKeys :
            CacheOf(redis', B) # CacheOf(redis, B) => ActsOn(B)]_vars
    /\ [](\A B \in IdKeys : \A i \in DOMAIN RowsOf(B) :
            RowsOf(B)[i].search_text \in Range(subs[B]))

\* Both identities typed, different queries, and both have a record.
C5_Witness ==
    \E A \in IdKeys, B \in IdKeys :
        /\ A # B
        /\ Range(subs[A]) \cap Range(subs[B]) = {}
        /\ RowsOf(A) # <<>>
        /\ RowsOf(B) # <<>>
        /\ Len(RowsOf(A)) + Len(RowsOf(B)) = Len(records)

----------------------------------------------------------------------------
(* C6, C7: bursts and records. *)

\* Nothing is running or pending for id and its head key is gone.
Quiescent(id) ==
    /\ ~InCall(id)
    /\ Settled(id)
    /\ ~Has(redis, buildRedisKey(id))

CountIn(s, x) == Cardinality({ i \in DOMAIN s : s[i] = x })

\* The last values of the ended bursts of id, and the texts of its rows.
EndedTexts(id) == [i \in DOMAIN ended[id] |-> ended[id][i].text]

RowTexts(id) == [i \in DOMAIN RowsOf(id) |-> RowsOf(id)[i].search_text]

\* C6: once nothing is running or pending for an identity, the last value of
\* each of its ended bursts is among its records.
C6_NoBurstLost ==
    \A id \in IdKeys :
        Quiescent(id) =>
            \A x \in Range(EndedTexts(id)) : x \in Range(RowTexts(id))

\* C7: once nothing is running or pending for an identity, each of its
\* records is the last value of an ended burst of its own: no value has more
\* records than bursts that ended with it.
C7_OneRecordPerBurst ==
    \A id \in IdKeys :
        Quiescent(id) =>
            \A x \in Range(RowTexts(id)) :
                CountIn(RowTexts(id), x) <= CountIn(EndedTexts(id), x)

----------------------------------------------------------------------------
(* C8 *)

\* C8: an identity whose only burst ended by its head expiring has, once
\* nothing is running or pending for it, exactly one record.
C8_OneRecordPerIdleBurst ==
    \A id \in IdKeys :
        (/\ Quiescent(id)
         /\ Len(ended[id]) = 1
         /\ ended[id][1].by = "expiry")
            => Len(RowsOf(id)) = 1

----------------------------------------------------------------------------
(* C9 *)

\* A call for id has written the head key and not yet the buffer key.
BetweenWrites(id) ==
    \E c \in Callers : call[c].pc = "setbuffer" /\ call[c].idForRedis = id

\* C9: unless a call for the identity is between its two cache writes, a head
\* key that is present comes with a buffer key holding the same value.
C9_HeadImpliesBuffer ==
    \A id \in IdKeys :
        (~BetweenWrites(id) /\ Has(redis, buildRedisKey(id)))
            => /\ Has(redis, buildBufferKey(id))
               /\ redis[buildBufferKey(id)] = redis[buildRedisKey(id)]

----------------------------------------------------------------------------
(* C10 *)

Populated(field) == field # <<>>

\* C10: every record has exactly one of user_id and anon_id populated.
C10_IdentityFieldsExclusive ==
    \A i \in DOMAIN records :
        Populated(records[i].user_id) # Populated(records[i].anon_id)

----------------------------------------------------------------------------
(* C11 *)

\* The identity a row belongs to, whichever field holds it.
RowIdentity(r) == IF Populated(r.anon_id) THEN r.anon_id ELSE r.user_id

\* C11: a record written on expiry and a record written on reset for the
\* same identity name it in the same field.
C11_ListenerClassifiesAsLogSearch ==
    \A i \in DOMAIN records, j \in DOMAIN records :
        (/\ records[i].via = "reset"
         /\ records[j].via = "expiry"
         /\ RowIdentity(records[i]) = RowIdentity(records[j]))
            => /\ records[i].user_id = records[j].user_id
               /\ records[i].anon_id = records[j].anon_id

----------------------------------------------------------------------------
(* C12 *)

\* The call of c was made without a user identifier.
IsAnonCall(c) == call[c].pc # "idle" /\ TrimSpace(call[c].userID) = <<>>

\* C12: a call without a user identifier uses "anon" followed by the digest
\* of its user agent as identity, whatever its query and whatever the cache
\* holds; two such calls use the same identity exactly when their user agents
\* are equal; and the keys the call writes are the head and buffer keys of
\* that identity.
C12_AnonIdentityDeterministic ==
    /\ [](\A c \in Callers :
            IsAnonCall(c) =>
                /\ call[c].idForRedis = AnonMarker \o sha256hex(call[c].userAgent)
                /\ call[c].anonID = call[c].idForRedis)
    /\ [](\A c \in Callers, e \in Callers :
            (IsAnonCall(c) /\ IsAnonCall(e)) =>
                (call[c].userAgent = call[e].userAgent
                    <=> call[c].idForRedis = call[e].idForRedis))
    /\ [][\A c \in Callers :
            LET id == AnonMarker \o sha256hex(call[c].userAgent)
            IN  /\ (IsAnonCall(c) /\ call[c].pc = "sethead" /\ call'[c] # call[c])
                    => /\ Has(redis', LastPrefix \o id)
                       /\ redis'[LastPrefix \o id] = call[c].normalizedQuery
                       /\ \A k \in DOMAIN redis' \ {LastPrefix \o id} :
                              Has(redis, k) /\ redis'[k] = redis[k]
                /\ (IsAnonCall(c) /\ call[c].pc = "setbuffer" /\ call'[c] # call[c])
                    => /\ Has(redis', BufferPrefix \o id)
                       /\ redis'[BufferPrefix \o id] = call[c].normalizedQuery
                       /\ \A k \in DOMAIN redis' \ {BufferPrefix \o id} :
                              Has(redis, k) /\ redis'[k] = redis[k]
         ]_vars

\* Two anonymous calls are running, from different browsers, one of them with
\* a whitespace-only user identifier and a different query: each has its own
\* head key.
C12_Witness ==
    \E c \in Callers, e \in Callers :
        /\ IsAnonCall(c) /\ IsAnonCall(e)
        /\ call[c].userAgent # call[e].userAgent
        /\ call[c].userID # call[e].userID
        /\ call[c].normalizedQuery # call[e].normalizedQuery
        /\ call[c].pc = "setbuffer" /\ call[e].pc = "setbuffer"
        /\ Has(redis, buildRedisKey(call[c].idForRedis))
        /\ Has(redis, buildRedisKey(call[e].idForRedis))
        /\ buildRedisKey(call[c].idForRedis) # buildRedisKey(call[e].idForRedis)

----------------------------------------------------------------------------
(* C13 *)

\* C13: no record has an empty text, and a writeSearch call with an empty
\* query returns nil and leaves the records as they were, whether or not the
\* store would fail.
C13_NoEmptyRecord ==
    /\ [](\A i \in DOMAIN records : records[i].search_text # <<>>)
    /\ [][\A c \in Callers :
            (/\ call[c].pc = "writesearch"
             /\ call[c].lastQuery = <<>>
             /\ call'[c] # call[c])
                => /\ records' = records
                   /\ call'[c].ret = "nil"
         ]_vars

\* A direct writeSearch call with an empty query has returned nil, after
\* records of other queries were written.
C13_Witness ==
    \E c \in Callers :
        /\ call[c].pc = "idle"
        /\ call[c].userID = <<"t">>
        /\ call[c].lastQuery = <<>>
        /\ call[c].ret = "nil"
        /\ records # <<>>
        /\ \A i \in DOMAIN records : records[i].user_id # <<"t">>

----------------------------------------------------------------------------
(* C14 *)

\* The LogSearch call of c has returned the error of a failed reset flush.
FlushFailed(c) == call[c] = [IdleCall EXCEPT !.ret = "err"]

\* C14: a LogSearch call that detects a reset changes neither cache nor
\* records before its flush; when the flush fails the call returns an error
\* at once with cache and records as they were, and it goes on to the head
\* write only with the record of the value it found written.  While the
\* failed call is the last one and the head is still present, the head holds
\* a value unrelated to the failed query, and a call with the same query
\* starts the flush of that head value again.
C14_FailedResetFlushIsRetried ==
    /\ [][\A c \in Callers :
            /\ (call[c].pc = "idle" /\ call'[c].pc = "write")
                   => redis' = redis /\ records' = records
            /\ (call[c].pc = "write" /\ call'[c] # call[c])
                   => \/ /\ records' = records
                         /\ redis' = redis
                         /\ call'[c].pc = "idle"
                         /\ call'[c].ret = "err"
                      \/ /\ Len(records') = Len(records) + 1
                         /\ Last(records').search_text = call[c].lastQuery
                         /\ redis' = redis
                         /\ call'[c].pc = "sethead"
            /\ \A id \in IdKeys :
                   (/\ FlushFailed(c)
                    /\ call'[c].pc \in {"write", "sethead"}
                    /\ call'[c].idForRedis = id
                    /\ subs[id] # <<>>
                    /\ call'[c].normalizedQuery = Last(subs[id])
                    /\ Has(redis, buildRedisKey(id)))
                       => /\ call'[c].pc = "write"
                          /\ call'[c].lastQuery = redis[buildRedisKey(id)]
         ]_vars
    /\ [](\A c \in Callers, id \in IdKeys :
            (/\ FlushFailed(c)
             /\ subs[id] # <<>>
             /\ Has(redis, buildRedisKey(id)))
                => /\ IsReset(redis[buildRedisKey(id)], Last(subs[id]))
                   /\ redis[buildRedisKey(id)] \in Range(subs[id]))

\* "a", then "b" whose flush of "a" failed, then "b" again: the retry is about
\* to flush "a", which is still in the head and the buffer, and no record
\* exists.
C14_Witness ==
    \E c \in Callers, id \in IdKeys :
        /\ call[c].pc = "write"
        /\ call[c].idForRedis = id
        /\ Len(subs[id]) = 3
        /\ subs[id][2] = subs[id][3]
        /\ call[c].lastQuery = subs[id][1]
        /\ GetVal(redis, buildRedisKey(id)) = subs[id][1]
        /\ GetVal(redis, buildBufferKey(id)) = subs[id][1]
        /\ records = <<>>

----------------------------------------------------------------------------
(* C15 *)

\* C15: a LogSearch call that goes on after its head read, while the head key
\* holds a value unrelated to its query, goes on to flush that value: it never
\* goes straight to overwriting the head.
C15_FailedHeadReadIsNotEmptyHead ==
    [][\A c \in Callers, id \in IdKeys :
         (/\ call[c].pc = "idle"
          /\ call'[c].pc \in {"write", "sethead"}
          /\ call'[c].idForRedis = id
          /\ Has(redis, buildRedisKey(id))
          /\ IsReset(redis[buildRedisKey(id)], call'[c].normalizedQuery))
             => /\ call'[c].pc = "write"
                /\ call'[c].lastQuery = redis[buildRedisKey(id)]
      ]_vars

----------------------------------------------------------------------------
(* C16 *)

\* C16: the listener's write step leaves the cache alone; it either adds the
\* record of the buffered query and goes on to the delete, or adds nothing and
\* goes back to its select with nothing in hand.  A buffer key disappears only
\* in the delete step of a listener that holds a written record of its value.
C16_ListenerDeletesAfterWrite ==
    [][/\ \A l \in Listeners :
            (lst[l].pc = "write" /\ lst'[l] # lst[l])
                => /\ redis' = redis
                   /\ \/ /\ Len(records') = Len(records) + 1
                         /\ Last(records').search_text = lst[l].query
                         /\ Last(records').via = "expiry"
                         /\ lst'[l].pc = "del"
                      \/ /\ records' = records
                         /\ lst'[l] = IdleListener
                         /\ ch'[l] = ch[l]
       /\ \A id \in IdKeys :
            (Has(redis, buildBufferKey(id)) /\ ~Has(redis', buildBufferKey(id)))
                => \E l \in Listeners :
                       /\ lst[l].pc = "del"
                       /\ lst[l].userID = id
                       /\ lst'[l] = IdleListener
                       /\ \E i \in DOMAIN ExpiryRowsOf(id) :
                              ExpiryRowsOf(id)[i].search_text = lst[l].query
      ]_vars

\* The listener took the expiry message of the only burst, its write failed,
\* and it is back in its select: the buffer still holds the query and no
\* record exists.
C16_Witness ==
    \E id \in IdKeys :
        /\ Len(subs[id]) = 2
        /\ HeadExpired(id)
        /\ ~InCall(id)
        /\ Settled(id)
        /\ records = <<>>
        /\ ~Has(redis, buildRedisKey(id))
        /\ GetVal(redis, buildBufferKey(id)) = Last(subs[id])

----------------------------------------------------------------------------
(* C17 *)

Running(l) == lst[l].pc \in {"select", "write", "del"}

Stopped(l) == lst[l].pc = "stopped"

\* C17: a started listener is Running or Stopped; it becomes Stopped only from
\* its select and only after the cancellation; when Stopped its subscription
\* is released and its channel closed, and it stays as it is: it takes no
\* message and no message is sent to it.  A Running listener whose context is
\* cancelled eventually is Stopped.
C17_ListenerLifecycle ==
    /\ [](\A l \in Listeners :
            /\ lst[l].pc # "start" => (Running(l) \/ Stopped(l))
            /\ Stopped(l) => /\ proc[l].ctxDone
                             /\ ~Subscribed(l)
                             /\ ch[l] = <<>>
                             /\ lst[l].query = <<>>)
    /\ [][\A l \in Listeners :
            /\ (~Stopped(l) /\ lst'[l].pc = "stopped")
                   => lst[l].pc = "select" /\ proc[l].ctxDone
            /\ Stopped(l) => /\ lst'[l] = lst[l]
                             /\ ch'[l] = ch[l]
                             /\ proc'[l] = proc[l]
         ]_vars
    /\ \A l \in LifecycleListeners :
           (Running(l) /\ proc[l].ctxDone) ~> Stopped(l)

\* The listener flushed a burst, was cancelled and stopped; a later burst has
\* expired since and stays in the buffer.
C17_Witness ==
    \E l \in Listeners, id \in IdKeys :
        /\ Stopped(l)
        /\ Len(ExpiryRowsOf(id)) = 1
        /\ Len(subs[id]) = 2
        /\ ExpiryRowsOf(id)[1].search_text = subs[id][1]
        /\ ~Has(redis, buildRedisKey(id))
        /\ ~InCall(id)
        /\ GetVal(redis, buildBufferKey(id)) = subs[id][2]
        /\ subs[id][2] # subs[id][1]

----------------------------------------------------------------------------
(* C18 *)

\* C18: the write step of a listener that holds the buffered query of a
\* message it received adds the record and goes on to the delete of the
\* buffer key, whether or not its context has been cancelled meanwhile.
C18_InFlightFlushCompletes ==
    [][\A l \in Listeners :
         (lst[l].pc = "write" /\ lst'[l] # lst[l])
             => /\ Len(records') = Len(records) + 1
                /\ Last(records').search_text = lst[l].query
                /\ lst'[l].pc = "del"
      ]_vars

----------------------------------------------------------------------------
(* C19 *)

\* C19: a listener is in its consume loop only with its subscription
\* established.
C19_RunningOnlyWhenSubscribed ==
    \A l \in Listeners : Running(l) => Subscribed(l)

----------------------------------------------------------------------------
(* C20 *)

\* The step appends exactly the row of entry, written on path via.
Commits(entry, via) == records' = Append(records, Row(entry, via))

\* C20: every writeSearch call with a non-empty query, whether made directly,
\* by LogSearch or by the listener, either appends exactly the one row of its
\* entry and reports success, or leaves the records as they were and reports
\* an error; no other step changes the records.
C20_WriteSearchAtomic ==
    [][/\ \A c \in Callers :
            LET entry == ResetEntry(call[c].userID, call[c].lastQuery,
                                    call[c].anonID)
            IN  /\ (/\ call[c].pc = "writesearch"
                    /\ call[c].lastQuery # <<>>
                    /\ call'[c] # call[c])
                       => \/ Commits(entry, "direct") /\ call'[c].ret = "nil"
                          \/ records' = records /\ call'[c].ret = "err"
                /\ (call[c].pc = "write" /\ call'[c] # call[c])
                       => \/ Commits(entry, "reset") /\ call'[c].pc = "sethead"
                          \/ records' = records /\ call'[c].ret = "err"
       /\ \A l \in Listeners :
            (lst[l].pc = "write" /\ lst'[l] # lst[l])
                => \/ /\ Commits(ExpiryEntry(lst[l].userID, lst[l].query), "expiry")
                      /\ lst'[l].pc = "del"
                   \/ records' = records /\ lst'[l].pc = "select"
       /\ records' # records
            => \/ \E c \in Callers :
                      /\ call[c].pc \in {"writesearch", "write"}
                      /\ call'[c] # call[c]
               \/ \E l \in Listeners : lst[l].pc = "write" /\ lst'[l] # lst[l]
      ]_vars

\* A direct writeSearch call with a query has returned an error: the records
\* written before are there and no row of that call is.
C20_Witness ==
    \E c \in Callers :
        /\ call[c].pc = "idle"
        /\ call[c].userID = <<"t">>
        /\ call[c].lastQuery # <<>>
        /\ call[c].ret = "err"
        /\ Len(records) = 1
        /\ records[1].via = "reset"

----------------------------------------------------------------------------
(* C21 *)

----------------------------------------------------------------------------
(* C22 *)

\* C22: after its reset flush, if any, a call attempts the head write and then,
\* whatever became of it, the buffer write, each with its normalized query and
\* each touching its own key only.  It returns nil exactly when both writes
\* succeeded, and then both keys hold the query; when one write failed it
\* returns an error and the key of the other write holds the query.
C22_CacheUpdateStep ==
    [][\A c \in Callers :
         LET q == call[c].normalizedQuery
             redisKey == buildRedisKey(call[c].idForRedis)
             bufferKey == buildBufferKey(call[c].idForRedis)
         IN  /\ (call[c].pc = "write" /\ call'[c] # call[c])
                    => call'[c].pc = "sethead"
             /\ (call[c].pc = "sethead" /\ call'[c] # call[c])
                    => /\ call'[c].pc = "setbuffer"
                       /\ call'[c].normalizedQuery = q
                       /\ \/ redis' = Set(redis, redisKey, q) /\ ~call'[c].err1
                          \/ redis' = redis /\ call'[c].err1
             /\ (call[c].pc = "setbuffer" /\ call'[c] # call[c])
                    => /\ call'[c].pc = "idle"
                       /\ \/ /\ redis' = Set(redis, bufferKey, q)
                             /\ call'[c].ret = IF call[c].err1 THEN "err" ELSE "nil"
                          \/ /\ redis' = redis
                             /\ call'[c].ret = "err"
                       /\ call'[c].ret = "nil"
                              => /\ GetVal(redis', redisKey) = q
                                 /\ GetVal(redis', bufferKey) = q
                       /\ (call'[c].ret = "err" /\ ~call[c].err1)
                              => GetVal(redis', redisKey) = q
      ]_vars

\* The only call made has returned an error: its head write failed and its
\* buffer write succeeded, so the buffer key holds the query and the head key
\* is absent.
C22_Witness ==
    \E c \in Callers, id \in IdKeys :
        /\ call[c] = [IdleCall EXCEPT !.ret = "err"]
        /\ ncalls = 1
        /\ Len(subs[id]) = 1
        /\ ~Has(redis, buildRedisKey(id))
        /\ ~HeadExpired(id)
        /\ GetVal(redis, buildBufferKey(id)) = subs[id][1]

----------------------------------------------------------------------------
(* C23 *)

\* The number of head expiries of id so far.
ExpiryCount(id) ==
    Cardinality({ i \in DOMAIN ended[id] : ended[id][i].by = "expiry" })

ResetRowsOf(id) == SelectSeq(RowsOf(id), LAMBDA r : r.via = "reset")

\* C23: a LogSearch call reaches its durable write only from its head read
\* and leaves it at once, to the head write or to its return, having added
\* at most one record; the listener reaches its durable write only by taking
\* a message from its channel and leaves it at once, to the delete or to its
\* select, having added at most one record and put no message back.  So an
\* identity has at most one reset record per call and at most one expiry
\* record per expiry message.
C23_AtMostOneFlushAttempt ==
    /\ [][/\ \A c \in Callers :
               /\ call'[c].pc = "write" => call[c].pc \in {"idle", "write"}
               /\ (call[c].pc = "write" /\ call'[c] # call[c])
                      => /\ call'[c].pc \in {"sethead", "idle"}
                         /\ Len(records') <= Len(records) + 1
               /\ (call[c].pc = "write" /\ call'[c] = call[c])
                      => \A i \in DOMAIN records' :
                             i > Len(records) => records'[i].via # "reset"
          /\ \A l \in Listeners :
               /\ (lst[l].pc # "write" /\ lst'[l].pc = "write")
                      => lst[l].pc = "select" /\ ch'[l] = Tail(ch[l])
               /\ (lst[l].pc = "write" /\ lst'[l] # lst[l])
                      => /\ lst'[l].pc \in {"del", "select"}
                         /\ Len(records') <= Len(records) + 1
                         /\ ch'[l] = ch[l]
               /\ (lst[l].pc = "write" /\ lst'[l] = lst[l])
                      => \A i \in DOMAIN records' :
                             i > Len(records) => records'[i].via # "expiry"
         ]_vars
    /\ [](\A id \in IdKeys :
            /\ Len(ResetRowsOf(id)) <= Len(subs[id])
            /\ Len(ExpiryRowsOf(id)) <= ExpiryCount(id))

\* The second call found a reset, its flush failed and it has returned; the
\* head expired and the listener's write failed too: two queries submitted,
\* one expiry message taken, and no record.
C23_Witness ==
    \E c \in Callers, id \in IdKeys :
        /\ FlushFailed(c)
        /\ Len(subs[id]) = 2
        /\ ~PrefixRelated(subs[id][1], subs[id][2])
        /\ ExpiryCount(id) = 1
        /\ Settled(id)
        /\ records = <<>>
        /\ GetVal(redis, buildBufferKey(id)) = subs[id][1]

----------------------------------------------------------------------------
(* C24 *)

\* C24: a caller that is not in a call can start one for an identity at any
\* time, also while another call for that identity is between its head read
\* and its last write; the durable write of a call appends the record of the
\* head value the call read, whatever has been written since, and its cache
\* writes put its query in the keys, whatever they hold.
C24_SubmitsNotSerialized ==
    /\ [](\A c \in Callers, a \in UserAgents, q \in RawQueries :
            (Returned(c) /\ ncalls < MaxCalls)
                => ENABLED LogSearchBegin(c, <<>>, a, q, TRUE))
    /\ [][\A c \in Callers :
            LET id == call[c].idForRedis
                q == call[c].normalizedQuery
            IN  /\ (call[c].pc = "write" /\ call'[c] # call[c])
                       => records' = Append(records,
                              Row(ResetEntry(call[c].userID, call[c].lastQuery,
                                             call[c].anonID), "reset"))
                /\ (call[c].pc = "sethead" /\ call'[c] # call[c])
                       => redis' = Set(redis, buildRedisKey(id), q)
                /\ (call[c].pc = "setbuffer" /\ call'[c] # call[c])
                       => redis' = Set(redis, buildBufferKey(id), q)
         ]_vars

\* Two calls read the same head before either wrote: the head value has two
\* reset records, and after both calls returned the head holds the query of
\* one call and the buffer the query of the other.
C24_Witness ==
    \E id \in IdKeys :
        /\ \A c \in Callers : Returned(c)
        /\ Len(subs[id]) = 3
        /\ Len(records) = 2
        /\ \A i \in DOMAIN records :
               /\ records[i].via = "reset"
               /\ records[i].search_text = subs[id][1]
        /\ Has(redis, buildRedisKey(id))
        /\ Has(redis, buildBufferKey(id))
        /\ redis[buildRedisKey(id)] # redis[buildBufferKey(id)]
        /\ {redis[buildRedisKey(id)], redis[buildBufferKey(id)]}
               = {subs[id][2], subs[id][3]}

----------------------------------------------------------------------------
(* C25 *)

\* Listener l takes the message at the head of its channel.
Takes(l) == lst[l].pc = "select" /\ ch[l] # <<>> /\ ch'[l] = Tail(ch[l])

\* C25: taking an expiry message changes neither cache nor records; the
\* listener then either holds the value of the buffer key of the message's
\* identity, which is present, and goes on to the write, or holds nothing and
\* is at its select again; when the buffer key is absent it is the latter.
C25_ListenerSkip ==
    [][\A l \in Listeners :
         LET id == TrimPrefix(Head(ch[l]), LastPrefix)
             bufferKey == buildBufferKey(id)
         IN  Takes(l)
                 => /\ redis' = redis
                    /\ records' = records
                    /\ \/ /\ Has(redis, bufferKey)
                          /\ lst'[l] = [pc |-> "write", userID |-> id,
                                        query |-> redis[bufferKey]]
                       \/ lst'[l] = IdleListener
                    /\ ~Has(redis, bufferKey) => lst'[l] = IdleListener
      ]_vars

\* Two bursts with different queries have expired and both messages were
\* taken: one was skipped, one flushed the second query, and nothing is left.
C25_Witness ==
    \E id \in IdKeys :
        /\ Len(subs[id]) = 2
        /\ subs[id][1] # subs[id][2]
        /\ ExpiryCount(id) = 2
        /\ ~InCall(id)
        /\ Settled(id)
        /\ Len(records) = 1
        /\ records[1].via = "expiry"
        /\ records[1].search_text = subs[id][2]
        /\ ~Has(redis, buildRedisKey(id))
        /\ ~Has(redis, buildBufferKey(id))

----------------------------------------------------------------------------
(* C26 *)

\* C26: taking the expiry message of a key that does not begin with
\* "search:last:" leaves cache and records as they are and the listener at
\* its select with nothing in hand, whatever the cache holds.
C26_NamespaceFilter ==
    [][\A l \in Listeners :
         (Takes(l) /\ ~IsPrefixOf(LastPrefix, Head(ch[l])))
             => /\ redis' = redis
                /\ records' = records
                /\ lst'[l] = IdleListener
      ]_vars

\* The head of the only burst expired and then its buffer, unflushed; both
\* messages were taken and there is no record.
C26_Witness ==
    \E id \in IdKeys :
        /\ Len(subs[id]) = 1
        /\ \A other \in IdKeys \ {id} : subs[other] = <<>>
        /\ ExpiryCount(id) = 1
        /\ ~InCall(id)
        /\ \A l \in Listeners : lst[l].pc = "select" /\ ch[l] = <<>>
        /\ redis = <<>>
        /\ records = <<>>

----------------------------------------------------------------------------
(* C27 *)

\* C27: a LogSearch call that starts while the head key of its identity is
\* absent goes straight to the head write, whatever the buffer key holds; it
\* adds no record in any of its steps, and its buffer write replaces what the
\* buffer key holds by its query.
C27_LogSearchIgnoresBuffer ==
    [][\A c \in Callers :
         /\ \A id \in IdKeys :
              (/\ call[c].pc = "idle"
               /\ call'[c].pc # "idle"
               /\ call'[c].idForRedis = id
               /\ ~Has(redis, buildRedisKey(id)))
                  => /\ call'[c].pc = "sethead"
                     /\ call'[c].lastQuery = <<>>
                     /\ records' = records
                     /\ redis' = redis
         /\ (call[c].pc # "idle" /\ call[c].lastQuery = <<>> /\ call'[c] # call[c])
              => /\ records' = records
                 /\ call[c].row = <<>>
                 /\ call[c].pc \in {"sethead", "setbuffer"}
         /\ (call[c].pc = "setbuffer" /\ call'[c] # call[c])
              => redis' = Set(redis, buildBufferKey(call[c].idForRedis),
                              call[c].normalizedQuery)
      ]_vars

\* A burst ended with its head expiring; before the listener took the message
\* a call with an unrelated query has returned: the buffer holds the new query,
\* the old one is in no record.
C27_Witness ==
    \E id \in IdKeys :
        /\ Len(subs[id]) = 2
        /\ ~PrefixRelated(subs[id][1], subs[id][2])
        /\ ExpiryCount(id) = 1
        /\ ~InCall(id)
        /\ \E l \in Listeners : lst[l].pc = "select" /\ Len(ch[l]) = 1
        /\ GetVal(redis, buildRedisKey(id)) = subs[id][2]
        /\ GetVal(redis, buildBufferKey(id)) = subs[id][2]
        /\ records = <<>>

----------------------------------------------------------------------------
(* C28 *)

\* The rows only grow: a step leaves them alone or appends one row.
RecordsGrow ==
    \/ records' = records
    \/ /\ Len(records') = Len(records) + 1
       /\ SubSeq(records', 1, Len(records)) = records

\* C28: in every reachable state the text of every row is the normalized form
\* of a query submitted before for the identity of that row, and no step
\* changes or removes a row.
C28_RecordProvenance ==
    /\ [](\A i \in DOMAIN records :
            /\ RowIdentity(records[i]) \in IdKeys
            /\ records[i].search_text \in Range(subs[RowIdentity(records[i])])
            /\ \E q \in RawQueries : records[i].search_text = normalizeQuery(q))
    /\ [][RecordsGrow]_vars

\* Two identities have typed; one has a row written by a reset, the other a
\* row written by the listener, with different texts.
C28_Witness ==
    \E i, j \in DOMAIN records :
        /\ RowIdentity(records[i]) # RowIdentity(records[j])
        /\ records[i].via = "reset"
        /\ records[j].via = "expiry"
        /\ records[i].search_text # records[j].search_text
        /\ Len(subs[RowIdentity(records[i])]) = 2
        /\ subs[RowIdentity(records[j])] = <<records[j].search_text>>

====
